---- MODULE Spec2Model ----
(***************************************************************************)
(* Model of the icon resolution engine of plugin/steam.py: the lru_cache   *)
(* memo around Steam.get_game_icon, the _icon_cache map, the pickled cache *)
(* file, the 4-worker ThreadPoolExecutor and the batch prefetch of         *)
(* Steam.all_games.                                                        *)
(*                                                                         *)
(* The environment (registry, files on disk, the CDN) is not state of the  *)
(* program: every query a tier makes of it is an input of the step that    *)
(* makes the query, drawn with \E from the answers the environment can     *)
(* give, so the environment may change arbitrarily between two steps.      *)
(***************************************************************************)
EXTENDS Integers, Sequences, FiniteSets, TLC

\* ---------------------------------------------------------------- constants

MAX_WORKERS == 4
LRU_MAXSIZE == 512
CACHE_VERSION == 2
NumUrls == 2

\* ---------------------------------------------------------------- bounds

\* identifiers of the model (4 are needed to occupy every worker of the pool)
NumIds == 4
\* identifiers the libraries hold when the same game may be listed twice
NumBatchIds == 2
\* identifiers application threads resolve directly (get_game_icon)
NumCallIds == 1
\* sessions (Steam instances constructed one after the other)
MaxSessions == 2
\* how many libraries may list the same game identifier
MaxCopies == 2
\* concurrent or successive runs of _download_icon for the same identifier
NumRuns == 2
\* chunks in which the body of an icon arrives
DlChunks == 2
\* plugin processes that run at the same time
NumProcs == 2
\* write calls in which pickle.dump hands a large cache to the file
SaveChunks == 2

Ids == 1..NumIds
CallIds == 1..NumCallIds
Urls == 1..NumUrls

\* ---------------------------------------------------------------- values

\* Optional[str]: None, or one of the paths a tier can produce for an id.
None == <<"none", 0>>
\* "no entry" in a dict / "no value yet"
Absent == <<"absent", 0>>
\* an exception propagated out of the call
Raised == <<"raised", 0>>
\* a future that was never submitted / is not done yet
NoFuture == <<"nofuture", 0>>
Pending == <<"pending", 0>>

RegPath(id) == <<"registry", id>>
LocalPath(id) == <<"local", id>>
CdnTag == <<"cdn1", "cdn2">>
\* <tmp>/steam_icons/<id>_<md5(url)>.jpg: one file name per (id, url)
CdnPath(id, u) == <<CdnTag[u], id>>

Paths == {RegPath(i) : i \in Ids} \cup {LocalPath(i) : i \in Ids}
         \cup {CdnPath(i, u) : i \in Ids, u \in Urls}
IsPath(v) == v \in Paths

EmptyCache == [i \in Ids |-> Absent]

\* ---------------------------------------------------------------- threads

\* Application threads that call get_game_icon directly, and the executor's
\* work items that run get_game_icon for all_games (one per entry of the
\* `futures` dict, in submission order).
Callers == {<<"caller", 1>>, <<"caller", 2>>}
MainThread == <<"caller", 1>>
MaxTasks == IF NumIds > NumBatchIds * MaxCopies THEN NumIds ELSE NumBatchIds * MaxCopies
Tasks == {<<"task", k>> : k \in 1..MaxTasks}
Frames == Callers \cup Tasks
Task(k) == <<"task", k>>

VARIABLES
    session,      \* number of the current Steam instance
    alive,        \* the instance exists (between __init__ and __del__)
    cache_file,   \* <tmp>/steam_icon_cache.pkl
    icon_cache,   \* self._icon_cache
    memo,         \* lru_cache entries of this instance: (self, id) -> result
    resolvedHere, \* history: ids some tier resolved to a path in this session
    pc,           \* per frame: position inside get_game_icon
    arg,          \* per frame: game_id
    ret,          \* per frame: value returned (or Raised)
    trace,        \* per frame, history: lookups made by the call, in order
    pre,          \* per frame, history: state of the id when the call began
    dl,           \* per frame: the future of its _download_icon work item
    queue,        \* the executor's FIFO work queue
    bpc,          \* position of the thread inside all_games
    games,        \* all_games: how many game records carry each id
    futures,      \* all_games: game_id of each submitted future, in order
    icon_map,     \* all_games: icon_map
    install,      \* history: what the last __init__ probed, chose and raised
    save_log,     \* history: what the last end of a session did about the save
    load_log,     \* history: what the last __init__ did about the load
    icon_file,    \* per URL: <tmp>/steam_icons/<id>_<md5(url)>.jpg of one id
    rpc,          \* per run of _download_icon: its position
    ru,           \* per run: index of the URL of the current iteration
    rk,           \* per run: the next chunk iter_content will yield
    rret,         \* per run: value returned (or Raised)
    rlog,         \* per run, history: the requests made and their outcomes
    shared_file,  \* the cache file as the writes of several processes leave it
    ppc,          \* per process: its position (load, run, save, ended)
    pmap,         \* per process: its self._icon_cache
    pk,           \* per process: the next piece its pickle.dump will write
    ploaded,      \* per process, history: what its load yielded
    psaved,       \* history: the maps whose save has completed
    porder        \* history: the processes in the order their saves completed

lifeVars == <<install, save_log, load_log>>
dlVars == <<icon_file, rpc, ru, rk, rret, rlog>>
procVars == <<shared_file, ppc, pmap, pk, ploaded, psaved, porder>>
\* variables the icon resolution never touches
extVars == <<lifeVars, dlVars, procVars>>

vars == <<session, alive, cache_file, icon_cache, memo, resolvedHere,
          pc, arg, ret, trace, pre, dl, queue, bpc, games, futures, icon_map,
          extVars>>

sessionVars == <<session, alive, cache_file>>
batchVars == <<bpc, games, futures, icon_map>>

\* ---------------------------------------------------------------- cache file

NoFile == [kind |-> "absent", version |-> 0, cache |-> EmptyCache]
CorruptFile == [kind |-> "corrupt", version |-> 0, cache |-> EmptyCache]
DictFile(v, c) == [kind |-> "dict", version |-> v, cache |-> c]

LoadIconCacheAnyVersion(file) ==
    IF file.kind = "dict" THEN file.cache ELSE EmptyCache

\* _load_icon_cache: the file's mapping when it unpickles to a dict of the
\* running version; otherwise _icon_cache stays the {} __init__ gave it.
LoadIconCache(file) ==
    IF file.kind = "dict" /\ file.version = CACHE_VERSION
    THEN file.cache
    ELSE EmptyCache

SaveIconCacheOldVersion(file, cache, outcome) ==
    IF cache = EmptyCache THEN file
    ELSE IF outcome = "ok" THEN DictFile(CACHE_VERSION - 1, cache)
    ELSE IF outcome = "openfail" THEN file
    ELSE CorruptFile

SaveIconCacheAlways(file, cache, outcome) ==
    IF outcome = "ok" THEN DictFile(CACHE_VERSION, cache)
    ELSE IF outcome = "openfail" THEN file
    ELSE CorruptFile

\* _save_icon_cache: nothing when the map is empty; else open(.., 'wb')
\* truncates and pickle.dump writes {'version', 'cache'}. outcome: "ok",
\* "openfail" (open raised: file untouched), "writefail" (dump raised after
\* the truncation). Either failure is caught and logged.
SaveIconCache(file, cache, outcome) ==
    IF cache = EmptyCache THEN file
    ELSE IF outcome = "ok" THEN DictFile(CACHE_VERSION, cache)
    ELSE IF outcome = "openfail" THEN file
    ELSE CorruptFile

SaveOutcomes == {"ok", "openfail", "writefail"}

\* What an earlier run of the plugin (this version or the one before the
\* cache format changed) may have left in the temp directory.
PrevRunCaches == {[i \in Ids |-> IF i = 1 THEN v ELSE Absent] : v \in {None, LocalPath(1)}}
InitFiles == {NoFile, CorruptFile}
             \cup {DictFile(v, c) : v \in {CACHE_VERSION - 1, CACHE_VERSION}, c \in PrevRunCaches}

\* ---------------------------------------------------------------- tiers

RegistryOutcomes == {"nokey", "denied", "novalue", "icon"}
LocalOutcomes == {"nodir", "nofile", "file"}
HttpOutcomes == {"200", "404", "neterror", "timeout"}
FsOutcomes == {"ok", "oserror"}
Responses == [Urls -> HttpOutcomes]

\* _get_registry_icon_path: o is what the uninstall entry "Steam App <id>"
\* offers: no such key in any view, access denied (OSError), a key whose icon
\* values and InstallLocation name nothing that exists, or a key naming an
\* existing icon. Every failure is caught inside and ends in None.
GetRegistryIconPath(id, o) ==
    IF o = "icon" THEN RegPath(id) ELSE None

\* _get_local_icon_path: o is what the librarycache directories hold.
GetLocalIconPath(id, o) ==
    IF o = "file" THEN LocalPath(id) ELSE None

\* The loop of _download_icon from URL u on: a 200 creates the directory
\* and the file (an OSError there is not a requests.RequestException and
\* leaves the function), any other status or a RequestException moves on.
RECURSIVE TryUrls(_, _, _, _)
TryUrls(id, u, resp, fs) ==
    IF u > NumUrls THEN None
    ELSE IF resp[u] = "200"
         THEN (IF fs = "oserror" THEN Raised ELSE CdnPath(id, u))
         ELSE TryUrls(id, u + 1, resp, fs)

\* _download_icon
DownloadIcon(id, resp, fs) == TryUrls(id, 1, resp, fs)

\* ---------------------------------------------------------------- lru_cache

\* functools.lru_cache(maxsize=512) evicts its least recently used key when
\* a new key arrives at a full cache: an entry is gone once `newer` keys that
\* were not in the cache have been inserted after its last use.
Evicted(newer) == newer >= LRU_MAXSIZE

\* ---------------------------------------------------------------- get_game_icon

Entry(tier, res, ok) == [tier |-> tier, res |-> res, ok |-> ok]

\* `if icon_path:` after the registry and the local tier
ShortCircuits(icon_path) == icon_path # None

TierAfterSkipsLocal(tier) == "remote"

\* The order of the tiers in the body of get_game_icon.
TierAfter(tier) == IF tier = "registry" THEN "local" ELSE "remote"
FirstTier == "registry"

MemoryCheckTruthyOnly(cached, exists) == cached # Absent /\ cached # None /\ exists

MemoryCheckNoneOnly(cached, exists) == cached = None

\* `if game_id in self._icon_cache:` with its two returns: TRUE when the
\* call returns the cached value, FALSE when it falls through to the tiers.
MemoryCheck(cached, exists) ==
    /\ cached # Absent
    /\ \/ cached # None /\ exists
       \/ cached = None

StoreNothing(cache, id, icon_path) == cache

\* self._icon_cache[game_id] = icon_path
StoreIcon(cache, id, icon_path) == [cache EXCEPT ![id] = icon_path]

Snapshot(id) == [entry |-> icon_cache[id], here |-> id \in resolvedHere, memo |-> memo[id]]
NoSnapshot == [entry |-> Absent, here |-> FALSE, memo |-> Absent]

\* A thread enters get_game_icon(id): first the lru_cache wrapper.
Call(f, id) ==
    /\ alive /\ bpc = "idle"
    /\ pc[f] = "idle"
    /\ pc' = [pc EXCEPT ![f] = "memo"]
    /\ arg' = [arg EXCEPT ![f] = id]
    /\ pre' = [pre EXCEPT ![f] = Snapshot(id)]
    /\ trace' = [trace EXCEPT ![f] = <<>>]
    /\ ret' = [ret EXCEPT ![f] = Absent]
    /\ UNCHANGED <<extVars, sessionVars, icon_cache, memo, resolvedHere, dl, queue, batchVars>>

\* The wrapper's lookup: a hit returns the memoised result without running
\* the body.
MemoLookup(f) ==
    /\ pc[f] = "memo"
    /\ IF memo[arg[f]] # Absent
       THEN /\ pc' = [pc EXCEPT ![f] = "done"]
            /\ ret' = [ret EXCEPT ![f] = memo[arg[f]]]
       ELSE /\ pc' = [pc EXCEPT ![f] = "check"]
            /\ UNCHANGED ret
    /\ UNCHANGED <<extVars, sessionVars, icon_cache, memo, resolvedHere, arg, trace, pre, dl,
                   queue, batchVars>>

\* The wrapper after the body returned v: the result is stored under the key
\* unless the key was added while the body ran. (The modelled keys are fewer
\* than LRU_MAXSIZE, so storing one never evicts another.)
MemoStore(m, id, v) == IF m[id] = Absent THEN [m EXCEPT ![id] = v] ELSE m

\* The body returns v: the wrapper stores it unless the key was added while
\* the body ran, and the caller gets v.
Return(f, v) ==
    /\ pc' = [pc EXCEPT ![f] = "done"]
    /\ ret' = [ret EXCEPT ![f] = v]
    /\ memo' = MemoStore(memo, arg[f], v)

\* The body moves on to `tier`; the remote tier begins by submitting
\* _download_icon to the executor and blocking on the future.
GoTier(f, tier, tr) ==
    /\ pc' = [pc EXCEPT ![f] = tier]
    /\ IF tier = "remote"
       THEN /\ queue' = Append(queue, <<"dl", f>>)
            /\ dl' = [dl EXCEPT ![f] = Pending]
            /\ trace' = [trace EXCEPT ![f] = Append(tr, Entry("remote", Pending, FALSE))]
       ELSE /\ trace' = [trace EXCEPT ![f] = tr]
            /\ UNCHANGED <<queue, dl>>
    /\ UNCHANGED <<ret, memo>>

\* Lines 151-157: the memory check. exists is os.path.exists(cached).
MapCheck(f, exists) ==
    /\ pc[f] = "check"
    /\ LET cached == icon_cache[arg[f]]
           tr == Append(trace[f], Entry("cache", cached, IsPath(cached) /\ exists))
       IN IF MemoryCheck(cached, exists)
          THEN /\ Return(f, cached)
               /\ trace' = [trace EXCEPT ![f] = tr]
               /\ UNCHANGED <<queue, dl>>
          ELSE GoTier(f, FirstTier, tr)
    /\ UNCHANGED <<extVars, sessionVars, icon_cache, resolvedHere, arg, pre, batchVars>>

\* After the registry or the local tier answered icon_path.
TierDone(f, tier, icon_path) ==
    LET tr == Append(trace[f], Entry(tier, icon_path, IsPath(icon_path)))
    IN IF ShortCircuits(icon_path)
       THEN /\ icon_cache' = StoreIcon(icon_cache, arg[f], icon_path)
            /\ resolvedHere' = resolvedHere \cup {arg[f]}
            /\ Return(f, icon_path)
            /\ trace' = [trace EXCEPT ![f] = tr]
            /\ UNCHANGED <<queue, dl>>
       ELSE /\ GoTier(f, TierAfter(tier), tr)
            /\ UNCHANGED <<icon_cache, resolvedHere>>

\* Lines 159-163
RegistryTier(f, o) ==
    /\ pc[f] = "registry"
    /\ TierDone(f, "registry", GetRegistryIconPath(arg[f], o))
    /\ UNCHANGED <<extVars, sessionVars, arg, pre, batchVars>>

\* Lines 165-169 (and the submit of line 172 on a miss)
LocalTier(f, o) ==
    /\ pc[f] = "local"
    /\ TierDone(f, "local", GetLocalIconPath(arg[f], o))
    /\ UNCHANGED <<extVars, sessionVars, arg, pre, batchVars>>

\* ---------------------------------------------------------------- executor

Running == {"memo", "check", "registry", "local", "remote"}
\* worker threads occupied by a get_game_icon work item (one that waits for
\* its download keeps its worker)
BusyWorkers == Cardinality({f \in Tasks : pc[f] \in Running})
FreeWorker == BusyWorkers < MAX_WORKERS

\* A free worker takes a _download_icon item from the head of the queue and
\* runs it to its end; the result (or the exception) is set on the future.
RunDownload(resp, fs) ==
    /\ queue # <<>> /\ Head(queue)[1] = "dl"
    /\ FreeWorker
    /\ LET f == Head(queue)[2]
       IN dl' = [dl EXCEPT ![f] = DownloadIcon(arg[f], resp, fs)]
    /\ queue' = Tail(queue)
    /\ UNCHANGED <<extVars, sessionVars, icon_cache, memo, resolvedHere, pc, arg, ret,
                   trace, pre, batchVars>>

\* A free worker takes a get_game_icon item from the head of the queue.
StartTask ==
    /\ queue # <<>> /\ Head(queue)[1] = "icon"
    /\ FreeWorker
    /\ LET f == Head(queue)[2]
       IN /\ pc' = [pc EXCEPT ![f] = "memo"]
          /\ pre' = [pre EXCEPT ![f] = Snapshot(arg[f])]
    /\ queue' = Tail(queue)
    /\ UNCHANGED <<extVars, sessionVars, icon_cache, memo, resolvedHere, arg, ret,
                   trace, dl, batchVars>>

ReRaisesNever(r) == FALSE

\* future.result() (line 173) re-raises the exception the work item ended
\* with; lines 174-175 are then not reached.
ReRaises(r) == r = Raised

ReplaceLast(tr, e) == [tr EXCEPT ![Len(tr)] = e]

\* Lines 173-175: future.result() hands over the download's result, which
\* is stored and returned, or re-raises the download's exception.
CollectDownload(f) ==
    /\ pc[f] = "remote"
    /\ dl[f] \notin {Pending, NoFuture}
    /\ dl' = [dl EXCEPT ![f] = NoFuture]
    /\ trace' = [trace EXCEPT ![f] = ReplaceLast(trace[f], Entry("remote", dl[f], IsPath(dl[f])))]
    /\ IF ReRaises(dl[f])
       THEN /\ pc' = [pc EXCEPT ![f] = "done"]
            /\ ret' = [ret EXCEPT ![f] = Raised]
            /\ UNCHANGED <<icon_cache, resolvedHere, memo>>
       ELSE /\ icon_cache' = StoreIcon(icon_cache, arg[f], dl[f])
            /\ resolvedHere' = IF IsPath(dl[f]) THEN resolvedHere \cup {arg[f]} ELSE resolvedHere
            /\ Return(f, dl[f])
    /\ UNCHANGED <<extVars, sessionVars, arg, pre, queue, batchVars>>

\* The calling thread takes the result and goes on.
CallerContinue(f) ==
    /\ f \in Callers
    /\ pc[f] = "done"
    /\ pc' = [pc EXCEPT ![f] = "idle"]
    /\ arg' = [arg EXCEPT ![f] = 0]
    /\ ret' = [ret EXCEPT ![f] = Absent]
    /\ trace' = [trace EXCEPT ![f] = <<>>]
    /\ pre' = [pre EXCEPT ![f] = NoSnapshot]
    /\ UNCHANGED <<extVars, sessionVars, icon_cache, memo, resolvedHere, dl, queue, batchVars>>

Quiet == /\ \A f \in Frames : pc[f] = "idle"
         /\ bpc = "idle"

\* The thread resolves n identifiers other than the modelled ones, none of
\* them memoised before: n new keys enter the lru_cache.
ResolveOthers(n) ==
    /\ alive /\ Quiet
    /\ \E j \in Ids : memo[j] # Absent
    /\ memo' = [j \in Ids |-> IF Evicted(n) THEN Absent ELSE memo[j]]
    /\ UNCHANGED <<extVars, sessionVars, icon_cache, resolvedHere, pc, arg, ret, trace, pre, dl,
                   queue, batchVars>>

\* ---------------------------------------------------------------- sessions

\* What _save_icon_cache did: "skipped" is the early return on an empty
\* map, "saved" a completed dump, "failed" an exception caught and logged.
SaveLog(cache, outcome) ==
    IF cache = EmptyCache THEN "skipped"
    ELSE IF outcome = "ok" THEN "saved"
    ELSE "failed"

\* __del__: the executor is shut down and the cache is saved.
EndSession(outcome) ==
    /\ alive /\ Quiet
    /\ alive' = FALSE
    /\ cache_file' = SaveIconCache(cache_file, icon_cache, outcome)
    /\ save_log' = SaveLog(icon_cache, outcome)
    /\ UNCHANGED <<dlVars, procVars, install, load_log, session, icon_cache, memo, resolvedHere, pc, arg, ret, trace,
                   pre, dl, queue, batchVars>>

\* __init__ of the next instance: an empty map, then _load_icon_cache. The
\* lru_cache keys carry the instance, so the new one starts with none.
NewSession ==
    /\ ~alive /\ session < MaxSessions
    /\ session' = session + 1
    /\ alive' = TRUE
    /\ icon_cache' = LoadIconCache(cache_file)
    /\ memo' = EmptyCache
    /\ resolvedHere' = {}
    /\ UNCHANGED <<extVars, cache_file, pc, arg, ret, trace, pre, dl, queue, batchVars>>

\* ---------------------------------------------------------------- construction

\* The directories __init__ may settle on: the `path` argument, the value of
\* HKEY_LOCAL_MACHINE InstallPath, of HKEY_CURRENT_USER SteamPath, and
\* DEFAULT_STEAM_PATH.
Candidates == {"explicit", "hklm", "hkcu", "default"}
\* A registry source: its value, FileNotFoundError (no key or no value), or
\* another OSError (access denied).
RegSourceOutcomes == {"value", "missing", "denied"}
\* A directory on disk: missing, there without steam.exe, or a Steam.
DirStates == {"missing", "noexe", "steam"}
Disks == [Candidates -> DirStates]
\* _load_icon_cache: the file is read, or exists()/open()/read raise.
LoadOutcomes == {"ok", "ioerror"}

FromRegistryNoFallback(hklm, hkcu) ==
    IF hklm = "value" THEN [path |-> "hklm", error |-> "none", read |-> <<"hklm">>]
    ELSE [path |-> "none", error |-> IF hklm = "missing" THEN "FileNotFoundError" ELSE "OSError",
          read |-> <<"hklm">>]

\* from_registry: HKLM first; its FileNotFoundError leads to HKCU, whose
\* exceptions leave the function; any other exception of HKLM leaves it too.
FromRegistry(hklm, hkcu) ==
    IF hklm = "value" THEN [path |-> "hklm", error |-> "none", read |-> <<"hklm">>]
    ELSE IF hklm = "denied"
         THEN [path |-> "none", error |-> "OSError", read |-> <<"hklm">>]
    ELSE IF hkcu = "value" THEN [path |-> "hkcu", error |-> "none", read |-> <<"hklm", "hkcu">>]
    ELSE IF hkcu = "missing"
         THEN [path |-> "none", error |-> "FileNotFoundError", read |-> <<"hklm", "hkcu">>]
    ELSE [path |-> "none", error |-> "OSError", read |-> <<"hklm", "hkcu">>]

\* Lines 38-44: the path argument, or from_registry(), or the default when
\* from_registry raised FileNotFoundError.
ChoosePath(explicit, hklm, hkcu) ==
    IF explicit THEN [path |-> "explicit", error |-> "none", read |-> <<>>]
    ELSE LET r == FromRegistry(hklm, hkcu)
         IN IF r.error = "FileNotFoundError"
            THEN [path |-> "default", error |-> "none", read |-> r.read]
            ELSE r

CheckPathNoExeCheck(path, disk) ==
    IF disk[path] = "missing" THEN "FileNotFoundError" ELSE "none"

\* Lines 46-49: the two checks on the chosen directory.
CheckPath(path, disk) ==
    IF disk[path] = "missing" THEN "FileNotFoundError"
    ELSE IF disk[path] = "noexe" THEN "SteamExecutableNotFound"
    ELSE "none"

\* The outcome of __init__ up to line 49.
Locate(explicit, hklm, hkcu, disk) ==
    LET c == ChoosePath(explicit, hklm, hkcu)
    IN [explicit |-> explicit, hklm |-> hklm, hkcu |-> hkcu, disk |-> disk,
        path |-> c.path, read |-> c.read,
        error |-> IF c.error # "none" THEN c.error ELSE CheckPath(c.path, disk)]

NoInstall == [explicit |-> FALSE, hklm |-> "missing", hkcu |-> "missing",
              disk |-> [c \in Candidates |-> "missing"],
              path |-> "none", read |-> <<>>, error |-> "none"]

\* _load_icon_cache with its try/except: a failure to read leaves the {} of
\* line 33.
LoadOrEmpty(file, lo) == IF lo = "ok" THEN LoadIconCache(file) ELSE EmptyCache

\* Which way _load_icon_cache went: no file, an exception caught and logged,
\* a file that is not a dict of the running version, or a mapping taken over.
LoadLog(file, lo) ==
    IF lo # "ok" THEN "error"
    ELSE IF file.kind = "absent" THEN "absent"
    ELSE IF file.kind = "corrupt" THEN "error"
    ELSE IF file.version # CACHE_VERSION THEN "rejected"
    ELSE "loaded"

\* Steam(path): __init__ as a whole. When it raises, the half-built object
\* is dropped; its __del__ finds an empty map and writes nothing.
Construct(explicit, hklm, hkcu, disk, lo) ==
    /\ ~alive /\ session < MaxSessions
    /\ session' = session + 1
    /\ install' = Locate(explicit, hklm, hkcu, disk)
    /\ alive' = (install'.error = "none")
    /\ icon_cache' = IF install'.error = "none" THEN LoadOrEmpty(cache_file, lo) ELSE EmptyCache
    /\ memo' = EmptyCache
    /\ resolvedHere' = {}
    /\ save_log' = IF install'.error = "none" THEN save_log ELSE "skipped"
    /\ load_log' = IF install'.error = "none" THEN LoadLog(cache_file, lo) ELSE "none"
    /\ UNCHANGED <<dlVars, procVars, cache_file, pc, arg, ret, trace, pre, dl, queue, batchVars>>

\* The process ends without the instance being finalized (killed, or the
\* interpreter exits without calling __del__): nothing is saved.
Abort ==
    /\ alive /\ Quiet
    /\ alive' = FALSE
    /\ save_log' = "none"
    /\ UNCHANGED <<dlVars, procVars, session, cache_file, icon_cache, memo, resolvedHere, pc, arg,
                   ret, trace, pre, dl, queue, batchVars, install, load_log>>

\* ---------------------------------------------------------------- _download_icon, step by step

\* Runs of _download_icon for one identifier, in threads of one process or
\* in several processes: they share the files of <tmp>/steam_icons.
Runs == 1..NumRuns
DlId == 1
\* The body of a response arrives in DlChunks chunks of iter_content(1024).
Chunks == 1..DlChunks
\* A file of steam_icons: whether it exists and which chunks of the body it
\* holds.
MissingFile == [exists |-> FALSE, data |-> {}]
EmptyFile == [exists |-> TRUE, data |-> {}]
CompleteFile == [exists |-> TRUE, data |-> Chunks]
Complete(file) == file.exists /\ file.data = Chunks

NoDownloads ==
    /\ icon_file = [u \in Urls |-> MissingFile]
    /\ rpc = [r \in Runs |-> "idle"]
    /\ ru = [r \in Runs |-> 0]
    /\ rk = [r \in Runs |-> 0]
    /\ rret = [r \in Runs |-> Absent]
    /\ rlog = [r \in Runs |-> <<>>]

\* All variables of the instance outside _download_icon stay as they are.
InstanceIdle ==
    UNCHANGED <<lifeVars, procVars, sessionVars, icon_cache, memo, resolvedHere, pc, arg,
                ret, trace, pre, dl, queue, batchVars>>

\* The run returns v (or ends with the exception when v = Raised).
DlReturn(r, v) ==
    /\ rpc' = [rpc EXCEPT ![r] = "done"]
    /\ rret' = [rret EXCEPT ![r] = v]

\* `continue`, or the end of the for loop: the next URL, or `return None`.
DlNextUrl(r) ==
    IF ru[r] < NumUrls
    THEN /\ rpc' = [rpc EXCEPT ![r] = "request"]
         /\ ru' = [ru EXCEPT ![r] = ru[r] + 1]
         /\ UNCHANGED rret
    ELSE /\ DlReturn(r, None)
         /\ UNCHANGED ru

\* _download_icon is called: the loop starts at the first URL.
DlStart(r) ==
    /\ rpc[r] = "idle"
    /\ rpc' = [rpc EXCEPT ![r] = "request"]
    /\ ru' = [ru EXCEPT ![r] = 1]
    /\ UNCHANGED <<icon_file, rk, rret, rlog>>
    /\ InstanceIdle

\* Lines 247-248 and 262-263: requests.get(url, timeout=3, stream=True);
\* a status other than 200 or a RequestException goes to the next URL.
DlRequest(r, o) ==
    /\ rpc[r] = "request"
    /\ rlog' = [rlog EXCEPT ![r] = Append(rlog[r], <<ru[r], o>>)]
    /\ IF o = "200"
       THEN /\ rpc' = [rpc EXCEPT ![r] = "exists"]
            /\ UNCHANGED <<ru, rret>>
       ELSE DlNextUrl(r)
    /\ UNCHANGED <<icon_file, rk>>
    /\ InstanceIdle

\* Lines 249-257 and 261: mkdir (an OSError leaves the function), then
\* `if not cache_file.exists()`: an existing file is returned as it is.
DlCheckFile(r, fs) ==
    /\ rpc[r] = "exists"
    /\ IF fs = "oserror" THEN DlReturn(r, Raised)
       ELSE IF icon_file[ru[r]].exists THEN DlReturn(r, CdnPath(DlId, ru[r]))
       ELSE /\ rpc' = [rpc EXCEPT ![r] = "open"]
            /\ UNCHANGED rret
    /\ UNCHANGED <<icon_file, ru, rk, rlog>>
    /\ InstanceIdle

\* Line 258: open(cache_file, 'wb') creates the file or truncates it.
DlOpen(r, fs) ==
    /\ rpc[r] = "open"
    /\ IF fs = "oserror"
       THEN /\ DlReturn(r, Raised)
            /\ UNCHANGED <<icon_file, rk>>
       ELSE /\ icon_file' = [icon_file EXCEPT ![ru[r]] = EmptyFile]
            /\ rk' = [rk EXCEPT ![r] = 1]
            /\ rpc' = [rpc EXCEPT ![r] = "write"]
            /\ UNCHANGED rret
    /\ UNCHANGED <<ru, rlog>>
    /\ InstanceIdle

WriteOutcomes == {"chunk", "neterror", "oserror"}

\* Lines 259-261: one turn of `for chunk in response.iter_content(1024)`,
\* written at this run's own file position; after the last chunk the path
\* is returned. A RequestException of the stream is caught by line 262 and
\* goes to the next URL, an OSError of the write leaves the function; both
\* leave the file as far as it was written.
DlWrite(r, o) ==
    /\ rpc[r] = "write"
    /\ IF o = "chunk"
       THEN /\ icon_file' = [icon_file EXCEPT ![ru[r]] =
                                [exists |-> TRUE, data |-> @.data \cup {rk[r]}]]
            /\ IF rk[r] = DlChunks
               THEN /\ DlReturn(r, CdnPath(DlId, ru[r]))
                    /\ UNCHANGED <<ru, rk>>
               ELSE /\ rk' = [rk EXCEPT ![r] = rk[r] + 1]
                    /\ UNCHANGED <<rpc, ru, rret>>
       ELSE /\ IF o = "neterror" THEN DlNextUrl(r)
               ELSE DlReturn(r, Raised) /\ UNCHANGED ru
            /\ UNCHANGED <<icon_file, rk>>
    /\ UNCHANGED rlog
    /\ InstanceIdle

\* ---------------------------------------------------------------- processes sharing the cache file

\* Plugin processes, each with one Steam instance, that run at the same
\* time over <tmp>/steam_icon_cache.pkl. pickle.dump hands the pickle to the
\* file in SaveChunks writes, each at the writer's own file position.
Procs == 1..NumProcs
Pieces == 1..SaveChunks
\* A position of the file that holds no data (after a truncation).
Hole == EmptyCache
\* The file: whether it exists, and for every position the map whose pickle
\* the piece at that position belongs to.
AbsentShared == [exists |-> FALSE, cells |-> [k \in Pieces |-> Hole]]
TruncatedShared == [exists |-> TRUE, cells |-> [k \in Pieces |-> Hole]]
WholeShared(m) == [exists |-> TRUE, cells |-> [k \in Pieces |-> m]]
\* the file is the complete pickle of m
WellFormed(file, m) == file.exists /\ \A k \in Pieces : file.cells[k] = m

\* _load_icon_cache on the shared file: the mapping when the file is one
\* complete pickle; a missing file, a truncated one, or pieces of different
\* pickles (pickle.load raises, the exception is caught) give the empty map.
LoadShared(file) ==
    IF file.exists /\ file.cells[1] # Hole /\ WellFormed(file, file.cells[1])
    THEN file.cells[1]
    ELSE EmptyCache

\* The results a resolution can store for an identifier.
StoredResults(id) == {None, RegPath(id), LocalPath(id)}

NoProcesses ==
    /\ shared_file = AbsentShared
    /\ ppc = [p \in Procs |-> "start"]
    /\ pmap = [p \in Procs |-> EmptyCache]
    /\ pk = [p \in Procs |-> 0]
    /\ ploaded = [p \in Procs |-> EmptyCache]
    /\ psaved = {}
    /\ porder = <<>>

\* What the process-level steps leave alone.
OtherProcessState ==
    UNCHANGED <<lifeVars, dlVars, sessionVars, icon_cache, memo, resolvedHere, pc, arg,
                ret, trace, pre, dl, queue, batchVars>>

\* __init__ of process p: the map is what the file yields at this moment.
ProcLoad(p) ==
    /\ ppc[p] = "start"
    /\ ppc' = [ppc EXCEPT ![p] = "run"]
    /\ pmap' = [pmap EXCEPT ![p] = LoadShared(shared_file)]
    /\ ploaded' = [ploaded EXCEPT ![p] = LoadShared(shared_file)]
    /\ UNCHANGED <<shared_file, pk, psaved, porder>>
    /\ OtherProcessState

\* get_game_icon in process p gets past the memory check and stores v.
ProcResolve(p, id, exists, v) ==
    /\ ppc[p] = "run"
    /\ ~MemoryCheck(pmap[p][id], exists)
    /\ pmap' = [pmap EXCEPT ![p] = StoreIcon(pmap[p], id, v)]
    /\ UNCHANGED <<shared_file, ppc, pk, ploaded, psaved, porder>>
    /\ OtherProcessState

\* __del__ of process p up to open(cache_path, 'wb'): nothing with an empty
\* map; else the file is created or truncated.
ProcSaveOpen(p) ==
    /\ ppc[p] = "run"
    /\ IF pmap[p] = EmptyCache
       THEN /\ ppc' = [ppc EXCEPT ![p] = "ended"]
            /\ UNCHANGED <<shared_file, pk>>
       ELSE /\ ppc' = [ppc EXCEPT ![p] = "saving"]
            /\ shared_file' = TruncatedShared
            /\ pk' = [pk EXCEPT ![p] = 1]
    /\ UNCHANGED <<pmap, ploaded, psaved, porder>>
    /\ OtherProcessState

\* One write of pickle.dump in process p, at p's file position; after the
\* last one the file is closed and p's save has completed.
ProcSaveWrite(p) ==
    /\ ppc[p] = "saving"
    /\ shared_file' = [exists |-> TRUE,
                       cells |-> [shared_file.cells EXCEPT ![pk[p]] = pmap[p]]]
    /\ IF pk[p] = SaveChunks
       THEN /\ ppc' = [ppc EXCEPT ![p] = "ended"]
            /\ psaved' = psaved \cup {pmap[p]}
            /\ porder' = Append(porder, p)
            /\ UNCHANGED pk
       ELSE /\ pk' = [pk EXCEPT ![p] = pk[p] + 1]
            /\ UNCHANGED <<ppc, psaved, porder>>
    /\ UNCHANGED <<pmap, ploaded>>
    /\ OtherProcessState

\* ---------------------------------------------------------------- all_games

\* Libraries over the first NumBatchIds identifiers, each listed by up to
\* MaxCopies libraries; and libraries over all identifiers, each listed once.
GameRecords == {g \in [Ids -> 0..MaxCopies] : \A i \in Ids : i > NumBatchIds => g[i] = 0}
DistinctGameRecords == [Ids -> 0..1]

SubmitPerRecord(g, i) == g[i]

\* game_ids is a set: however many records carry id i, the dict
\* comprehension of lines 284-287 submits one future for it.
SubmitCount(g, i) == IF g[i] > 0 THEN 1 ELSE 0

Submitted(i) == Cardinality({k \in 1..Len(futures) : futures[k] = i})
ToSubmit == {i \in Ids : Submitted(i) < SubmitCount(games, i)}
Min(S) == CHOOSE x \in S : \A y \in S : x <= y

IconMapEntryNoCatch(r) == IF r = Raised THEN Absent ELSE r

\* Lines 293-297: the future's result, or None when result() raised.
IconMapEntry(r) == IF r = Raised THEN None ELSE r

\* Lines 269-281: the libraries are enumerated; g[i] game records carry id i.
AllGamesEnumerate(g) ==
    /\ alive /\ Quiet
    /\ games' = g
    /\ futures' = <<>>
    /\ icon_map' = EmptyCache
    /\ bpc' = IF \A i \in Ids : SubmitCount(g, i) = 0 THEN "collect" ELSE "submit"
    /\ UNCHANGED <<extVars, sessionVars, icon_cache, memo, resolvedHere, pc, arg, ret,
                   trace, pre, dl, queue>>

\* Lines 284-287: one executor.submit(self.get_game_icon, game_id) per
\* element of game_ids (a set of small ints iterates in ascending order).
BatchSubmit ==
    /\ bpc = "submit"
    /\ LET i == Min(ToSubmit)
           f == Task(Len(futures) + 1)
       IN /\ futures' = Append(futures, i)
          /\ queue' = Append(queue, <<"icon", f>>)
          /\ pc' = [pc EXCEPT ![f] = "queued"]
          /\ arg' = [arg EXCEPT ![f] = i]
          /\ bpc' = IF ToSubmit = {i} /\ Submitted(i) + 1 = SubmitCount(games, i)
                    THEN "collect" ELSE "submit"
    /\ UNCHANGED <<extVars, sessionVars, icon_cache, memo, resolvedHere, ret, trace, pre,
                   dl, games, icon_map>>

LastFuture(i) == CHOOSE k \in 1..Len(futures) :
                    futures[k] = i /\ \A m \in 1..Len(futures) : futures[m] = i => m <= k

\* Lines 289-297: as_completed has handed over every future; icon_map holds
\* one entry per game_id.
AllGamesCollect ==
    /\ bpc = "collect"
    /\ \A k \in 1..Len(futures) : pc[Task(k)] = "done"
    /\ icon_map' = [i \in Ids |-> IF Submitted(i) > 0
                                  THEN IconMapEntry(ret[Task(LastFuture(i))])
                                  ELSE Absent]
    /\ bpc' = "done"
    /\ UNCHANGED <<extVars, sessionVars, icon_cache, memo, resolvedHere, pc, arg, ret,
                   trace, pre, dl, queue, games, futures>>

\* Lines 299-303: the games get their icons and all_games returns; the
\* futures and their work items are dropped. games and icon_map stay as the
\* record of what the batch reported.
AllGamesReturn ==
    /\ bpc = "done"
    /\ bpc' = "idle"
    /\ futures' = <<>>
    /\ pc' = [f \in Frames |-> IF f \in Tasks THEN "idle" ELSE pc[f]]
    /\ arg' = [f \in Frames |-> IF f \in Tasks THEN 0 ELSE arg[f]]
    /\ ret' = [f \in Frames |-> IF f \in Tasks THEN Absent ELSE ret[f]]
    /\ trace' = [f \in Frames |-> IF f \in Tasks THEN <<>> ELSE trace[f]]
    /\ pre' = [f \in Frames |-> IF f \in Tasks THEN NoSnapshot ELSE pre[f]]
    /\ UNCHANGED <<extVars, sessionVars, icon_cache, memo, resolvedHere, dl, queue,
                   games, icon_map>>

\* ---------------------------------------------------------------- specification

NoGames == [i \in Ids |-> 0]

\* The state after the first Steam() was constructed.
Init ==
    /\ session = 1
    /\ alive = TRUE
    /\ cache_file \in InitFiles
    /\ icon_cache = LoadIconCache(cache_file)
    /\ memo = EmptyCache
    /\ resolvedHere = {}
    /\ pc = [f \in Frames |-> "idle"]
    /\ arg = [f \in Frames |-> 0]
    /\ ret = [f \in Frames |-> Absent]
    /\ trace = [f \in Frames |-> <<>>]
    /\ pre = [f \in Frames |-> NoSnapshot]
    /\ dl = [f \in Frames |-> NoFuture]
    /\ queue = <<>>
    /\ bpc = "idle"
    /\ games = NoGames
    /\ futures = <<>>
    /\ icon_map = EmptyCache
    /\ install = NoInstall
    /\ save_log = "none"
    /\ load_log = "none"
    /\ NoDownloads
    /\ NoProcesses

\* One application thread that resolves identifiers one call after the
\* other, over several sessions.
Next ==
    \/ \E id \in CallIds : Call(MainThread, id)
    \/ MemoLookup(MainThread)
    \/ \E exists \in BOOLEAN : MapCheck(MainThread, exists)
    \/ \E o \in RegistryOutcomes : RegistryTier(MainThread, o)
    \/ \E o \in LocalOutcomes : LocalTier(MainThread, o)
    \/ \E resp \in Responses, fs \in FsOutcomes : RunDownload(resp, fs)
    \/ CollectDownload(MainThread)
    \/ CallerContinue(MainThread)
    \/ \E n \in {LRU_MAXSIZE} : ResolveOthers(n)
    \/ \E outcome \in SaveOutcomes : EndSession(outcome)
    \/ NewSession

Spec == Init /\ [][Next]_vars

\* The steps of an all_games() after the enumeration: the calling thread
\* dispatches the batch and blocks; the workers interleave.
BatchSteps ==
    \/ BatchSubmit
    \/ StartTask
    \/ \E f \in Tasks :
        \/ MemoLookup(f)
        \/ \E exists \in BOOLEAN : MapCheck(f, exists)
        \/ \E o \in RegistryOutcomes : RegistryTier(f, o)
        \/ \E o \in LocalOutcomes : LocalTier(f, o)
        \/ CollectDownload(f)
    \/ \E resp \in Responses, fs \in FsOutcomes : RunDownload(resp, fs)
    \/ AllGamesCollect

\* One all_games() on a fresh instance, as the plugin's query handler runs
\* it, over libraries that may list a game more than once.
NextBatch ==
    \/ \E g \in GameRecords : AllGamesEnumerate(g)
    \/ BatchSteps

\* The temp directory holds no cache file or one this version wrote.
InitBatch == Init /\ (cache_file = NoFile \/ cache_file.version = CACHE_VERSION)

SpecBatch == InitBatch /\ [][NextBatch]_vars

\* The first run of the plugin on a machine: no cache file yet.
InitPool == Init /\ cache_file = NoFile

\* One all_games() over libraries with up to NumIds different games.
NextPool ==
    \/ \E g \in DistinctGameRecords : AllGamesEnumerate(g)
    \/ BatchSteps

SpecPool == InitPool /\ [][NextPool]_vars

\* Two application threads that resolve identifiers concurrently on one
\* instance.
NextRace ==
    \/ \E c \in Callers :
        \/ \E id \in CallIds : Call(c, id)
        \/ MemoLookup(c)
        \/ \E exists \in BOOLEAN : MapCheck(c, exists)
        \/ \E o \in RegistryOutcomes : RegistryTier(c, o)
        \/ \E o \in LocalOutcomes : LocalTier(c, o)
        \/ CollectDownload(c)
        \/ CallerContinue(c)
    \/ \E resp \in Responses, fs \in FsOutcomes : RunDownload(resp, fs)

SpecRace == Init /\ [][NextRace]_vars

\* No instance exists and n have been constructed so far.
InitAt(n) ==
    /\ session = n
    /\ alive = FALSE
    /\ cache_file \in InitFiles
    /\ icon_cache = EmptyCache
    /\ memo = EmptyCache
    /\ resolvedHere = {}
    /\ pc = [f \in Frames |-> "idle"]
    /\ arg = [f \in Frames |-> 0]
    /\ ret = [f \in Frames |-> Absent]
    /\ trace = [f \in Frames |-> <<>>]
    /\ pre = [f \in Frames |-> NoSnapshot]
    /\ dl = [f \in Frames |-> NoFuture]
    /\ queue = <<>>
    /\ bpc = "idle"
    /\ games = NoGames
    /\ futures = <<>>
    /\ icon_map = EmptyCache
    /\ install = NoInstall
    /\ save_log = "none"
    /\ load_log = "none"
    /\ NoDownloads
    /\ NoProcesses

\* The process before its first Steam() is constructed.
InitBefore == InitAt(0)

\* One Steam() constructed on a machine with any registry and disk contents,
\* and dropped again; no icon is resolved.
InitLocate == InitAt(MaxSessions - 1)

NextLocate ==
    \/ \E explicit \in BOOLEAN, hklm \in RegSourceOutcomes, hkcu \in RegSourceOutcomes,
          disk \in Disks, lo \in LoadOutcomes :
            Construct(explicit, hklm, hkcu, disk, lo)
    \/ \E outcome \in SaveOutcomes : EndSession(outcome)
    \/ Abort

SpecLocate == InitLocate /\ [][NextLocate]_vars

\* Libraries that hold only games the application thread also resolves
\* directly.
CallGameRecords == {g \in GameRecords : \A i \in Ids \ CallIds : g[i] = 0}

\* Batches followed by direct calls of the same thread on the same instance,
\* up to the instance's end.
NextBatchThen ==
    \/ \E g \in CallGameRecords : AllGamesEnumerate(g)
    \/ BatchSteps
    \/ AllGamesReturn
    \/ \E id \in CallIds : Call(MainThread, id)
    \/ MemoLookup(MainThread)
    \/ \E exists \in BOOLEAN : MapCheck(MainThread, exists)
    \/ \E o \in RegistryOutcomes : RegistryTier(MainThread, o)
    \/ \E o \in LocalOutcomes : LocalTier(MainThread, o)
    \/ CollectDownload(MainThread)
    \/ CallerContinue(MainThread)
    \/ \E outcome \in SaveOutcomes : EndSession(outcome)

SpecBatchThen == InitBatch /\ [][NextBatchThen]_vars

\* Runs of _download_icon for the same identifier that interleave freely.
NextDownload ==
    \E r \in Runs :
        \/ DlStart(r)
        \/ \E o \in HttpOutcomes : DlRequest(r, o)
        \/ \E fs \in FsOutcomes : DlCheckFile(r, fs)
        \/ \E fs \in FsOutcomes : DlOpen(r, fs)
        \/ \E o \in WriteOutcomes : DlWrite(r, o)

SpecDownload == InitPool /\ [][NextDownload]_vars

\* Plugin processes that load, resolve and save at the same time.
NextProcs ==
    \E p \in Procs :
        \/ ProcLoad(p)
        \/ \E id \in CallIds, exists \in BOOLEAN :
              \E v \in StoredResults(id) : ProcResolve(p, id, exists, v)
        \/ ProcSaveOpen(p)
        \/ ProcSaveWrite(p)

SpecProcs == InitPool /\ [][NextProcs]_vars

\* A directory tree on which every candidate is a Steam.
SteamEverywhere == [c \in Candidates |-> "steam"]

\* The life of the cache over the runs of the plugin with a valid
\* steam_path setting: an instance is constructed (the load may fail),
\* one thread resolves icons, and the instance is finalized or the process
\* just ends.
NextLife ==
    \/ \E lo \in LoadOutcomes : Construct(TRUE, "missing", "missing", SteamEverywhere, lo)
    \/ \E id \in CallIds : Call(MainThread, id)
    \/ MemoLookup(MainThread)
    \/ \E exists \in BOOLEAN : MapCheck(MainThread, exists)
    \/ \E o \in RegistryOutcomes : RegistryTier(MainThread, o)
    \/ \E o \in LocalOutcomes : LocalTier(MainThread, o)
    \/ \E resp \in Responses, fs \in FsOutcomes : RunDownload(resp, fs)
    \/ CollectDownload(MainThread)
    \/ CallerContinue(MainThread)
    \/ \E outcome \in SaveOutcomes : EndSession(outcome)
    \/ Abort

SpecLife == InitBefore /\ [][NextLife]_vars

\* ---------------------------------------------------------------- properties

TierOrder == <<"registry", "local", "remote">>
Last(tr) == tr[Len(tr)]
\* the call got past the memory check
PastCheck(f) == trace[f] # <<>> /\ trace[f][1].tier = "cache"
\* no tier ran for the call: its trace holds at most the memory check
NoTierRun(f) == \A k \in 1..Len(trace[f]) : trace[f][k].tier = "cache"
InTiers(f) == pc[f] \in {"registry", "local", "remote"}
\* between the membership check and the entry write of lines 151-175
InsideEntry(f) == pc[f] \in {"check", "registry", "local", "remote"}

\* C1: a call that finds the identifier absent from the in-memory map runs
\* the tiers in the order registry, local, remote; every tier before the last
\* one consulted answered None; a tier that answers a path is the last one
\* consulted and its path is what the call returns; a finished call returns
\* what the last tier it consulted answered.
TiersInOrderFirstSuccessWins ==
    \A f \in Frames :
        (PastCheck(f) /\ trace[f][1].res = Absent) =>
            LET tr == trace[f] IN
            /\ Len(tr) <= 1 + Len(TierOrder)
            /\ \A k \in 2..Len(tr) : tr[k].tier = TierOrder[k - 1]
            /\ \A k \in 2..(Len(tr) - 1) : tr[k].res = None
            /\ \A k \in 2..Len(tr) :
                IsPath(tr[k].res) => k = Len(tr) /\ pc[f] = "done" /\ ret[f] = tr[k].res
            /\ pc[f] = "done" => Len(tr) >= 2 /\ ret[f] = Last(tr).res
            /\ pc[f] = "local" => Len(tr) = 2
            /\ pc[f] = "remote" => Len(tr) = 4 /\ dl[f] # NoFuture
            /\ dl[f] # NoFuture => pc[f] = "remote"

\* C1 witness: the registry answered None, the local tier a path, and the
\* call returned it with no download submitted.
LocalTierEndedResolution ==
    \E f \in Frames :
        /\ pc[f] = "done" /\ PastCheck(f) /\ trace[f][1].res = Absent
        /\ Len(trace[f]) = 3 /\ trace[f][3].tier = "local"
        /\ ret[f] = LocalPath(arg[f])
        /\ dl[f] = NoFuture

\* C2 as claimed: once a tier resolved an identifier to a path in this
\* session, every later call for it returns that path and runs no tier.
LaterResolveAlwaysIdentical ==
    \A f \in Frames :
        (pc[f] = "done" /\ pre[f].here /\ IsPath(pre[f].entry)) =>
            ret[f] = pre[f].entry /\ NoTierRun(f)

\* C2 amended: once a tier resolved an identifier to a path in this session,
\* a later call for it returns that path and runs no tier as long as the
\* lru_cache still holds the identifier or the path still exists when the
\* call checks it; when the entry was evicted and the path is gone, the call
\* runs the tier chain again.
LaterResolveIdenticalWhileMemoOrFile ==
    \A f \in Frames :
        (pc[f] = "done" /\ pre[f].here /\ IsPath(pre[f].entry)) =>
            /\ (pre[f].memo # Absent \/ (PastCheck(f) /\ trace[f][1].ok)) =>
                    ret[f] = pre[f].entry /\ NoTierRun(f)
            /\ (pre[f].memo = Absent /\ PastCheck(f) /\ ~trace[f][1].ok) =>
                    Len(trace[f]) >= 2 /\ trace[f][2].tier = "registry"

\* C2 witness: the lru_cache entry was evicted, the file still exists, and
\* the call returned the same path from the in-memory map.
EvictedButFileStillThere ==
    \E f \in Frames :
        /\ pc[f] = "done" /\ pre[f].here /\ IsPath(pre[f].entry)
        /\ pre[f].memo = Absent /\ PastCheck(f) /\ trace[f][1].ok
        /\ ret[f] = pre[f].entry

\* C3: a call whose tiers all answered None returns None and leaves None in
\* the in-memory map; a call that begins while the map holds None for the
\* identifier (stored in this session or loaded from the cache file) returns
\* None and runs no tier, so no request is made.
NoneIsCached ==
    \A f \in Frames :
        /\ (pc[f] = "done" /\ PastCheck(f) /\ Last(trace[f]).tier = "remote"
                /\ Last(trace[f]).res = None) =>
              ret[f] = None /\ icon_cache[arg[f]] = None
        /\ (pc[f] = "done" /\ pre[f].entry = None) =>
              ret[f] = None /\ NoTierRun(f) /\ dl[f] = NoFuture

\* C3 witness: a later session loaded the None entry from the cache file and
\* a call returned it from the memory check.
NoneServedFromLoadedCache ==
    \E f \in Frames :
        /\ session > 1 /\ ~pre[f].here
        /\ pc[f] = "done" /\ pre[f].entry = None /\ ret[f] = None
        /\ PastCheck(f) /\ Len(trace[f]) = 1

FileHolds(id, v) ==
    cache_file.kind = "dict" /\ cache_file.version = CACHE_VERSION /\ cache_file.cache[id] = v

\* C4 as claimed: when a call has returned v, the in-memory map and the
\* cache file both hold id -> v.
MapAndFileHoldResultAtReturn ==
    \A f \in Frames :
        (pc[f] = "done" /\ ret[f] # Raised) =>
            icon_cache[arg[f]] = ret[f] /\ FileHolds(arg[f], ret[f])

\* C4 amended: the step in which a call returns v leaves the in-memory map
\* holding id -> v and does not touch the cache file; the file changes only
\* in the save of __del__, which writes the whole map.
MapHoldsResultFileWrittenAtEnd ==
    [][ /\ \A f \in Frames :
              (pc[f] # "done" /\ pc'[f] = "done" /\ ret'[f] # Raised) =>
                  icon_cache'[arg[f]] = ret'[f] /\ cache_file' = cache_file
        /\ cache_file' # cache_file =>
              /\ alive /\ ~alive'
              /\ cache_file' \in {DictFile(CACHE_VERSION, icon_cache), CorruptFile}
      ]_vars

\* C4 witness: a call returned a path that the map holds and the file does
\* not.
ReturnedButNotInFile ==
    \E f \in Frames :
        /\ pc[f] = "done" /\ IsPath(ret[f])
        /\ icon_cache[arg[f]] = ret[f]
        /\ ~FileHolds(arg[f], ret[f])

\* C5 as claimed: no state has every worker of the pool waiting on a
\* download that is still in the queue.
PoolNeverStarved ==
    ~ /\ bpc = "collect"
      /\ BusyWorkers = MAX_WORKERS
      /\ \A f \in Tasks : pc[f] \in Running => (pc[f] = "remote" /\ dl[f] = Pending)

\* C6: whatever the number of records that carry an identifier, the batch
\* submits one future for it when some record carries it and none otherwise,
\* and never has two work items for the same identifier.
OneTaskPerDistinctId ==
    /\ \A i \in Ids : Submitted(i) <= 1
    /\ \A i \in Ids : Cardinality({f \in Tasks : pc[f] # "idle" /\ arg[f] = i}) <= 1
    /\ bpc \in {"collect", "done"} =>
          /\ \A i \in Ids : Submitted(i) = 1 <=> games[i] > 0
          /\ Len(futures) = Cardinality({i \in Ids : games[i] > 0})

\* C6 witness: a batch over {5, 5, 7} finished with two futures.
DuplicateIdResolvedOnce ==
    \E i, j \in Ids :
        /\ i # j /\ games[i] = 2 /\ games[j] = 1
        /\ \A m \in Ids \ {i, j} : games[m] = 0
        /\ bpc = "done" /\ Len(futures) = 2
        /\ icon_map[i] # Absent /\ icon_map[j] # Absent

\* C7: when the batch returns, icon_map has an entry exactly for the
\* dispatched identifiers: None for one whose work item raised, and for every
\* other one the value its own get_game_icon returned.
FailureIsolatedInBatch ==
    bpc = "done" =>
        /\ \A i \in Ids : icon_map[i] # Absent <=> games[i] > 0
        /\ \A k \in 1..Len(futures) :
              /\ pc[Task(k)] = "done"
              /\ ret[Task(k)] = Raised => icon_map[futures[k]] = None
              /\ ret[Task(k)] # Raised =>
                    icon_map[futures[k]] = ret[Task(k)] /\ ret[Task(k)] # Absent

\* C7 witness: one work item raised, a sibling resolved a path, and the
\* batch returned both entries.
BatchSurvivedFailure ==
    \E k, m \in 1..Len(futures) :
        /\ bpc = "done"
        /\ ret[Task(k)] = Raised /\ icon_map[futures[k]] = None
        /\ IsPath(ret[Task(m)]) /\ icon_map[futures[m]] = ret[Task(m)]

\* C8 as claimed: no direct call ends with an error propagated to its
\* caller.
ResolveNeverRaises ==
    \A f \in Callers : ret[f] # Raised

StoredPathNeverOverwritten ==
    [][ \A f \in Frames :
            (/\ InTiers(f) /\ pc'[f] = "done"
             /\ trace[f][1].res = Absent
             /\ IsPath(icon_cache[arg[f]]))
            => icon_cache'[arg[f]] = icon_cache[arg[f]]
      ]_vars

\* an __init__ has run
Constructed == install # NoInstall
\* the last __init__ got as far as choosing a directory
Chose == Constructed /\ install.path # "none"
\* the directories the claim counts as candidates of the last __init__
Supplied ==
    (IF install.explicit THEN {"explicit"} ELSE {})
    \cup (IF ~install.explicit /\ install.hklm = "value" THEN {"hklm"} ELSE {})
    \cup (IF ~install.explicit /\ install.hkcu = "value" THEN {"hkcu"} ELSE {})
    \cup {"default"}

\* C14: with a path argument __init__ uses it and reads no registry source;
\* without one it reads HKLM, reads HKCU only when HKLM is missing, takes the
\* first value it gets, and takes the default path when both are missing;
\* a missing source is never the error __init__ ends with (the only errors
\* then are those of the checks on the chosen directory).
InstallPathFollowsChain ==
    Constructed =>
        /\ install.explicit => install.path = "explicit" /\ install.read = <<>>
        /\ ~install.explicit =>
              /\ install.hklm = "value" =>
                    install.path = "hklm" /\ install.read = <<"hklm">>
              /\ (install.hklm = "missing" /\ install.hkcu = "value") =>
                    install.path = "hkcu" /\ install.read = <<"hklm", "hkcu">>
              /\ (install.hklm = "missing" /\ install.hkcu = "missing") =>
                    install.path = "default" /\ install.read = <<"hklm", "hkcu">>
        /\ (install.explicit \/ (install.hklm # "denied" /\ install.hkcu # "denied")) =>
              /\ install.path \in Candidates
              /\ install.error = CheckPath(install.path, install.disk)

\* C14 witness: HKLM was missing, HKCU gave the directory, and the instance
\* was constructed on it.
HkcuPathWon ==
    /\ alive /\ ~install.explicit
    /\ install.hklm = "missing" /\ install.hkcu = "value"
    /\ install.path = "hkcu" /\ install.error = "none"

\* C15 as claimed: __init__ ends with FileNotFoundError exactly when none of
\* the candidate directories exists.
NotFoundIffNoCandidateExists ==
    Chose =>
        (install.error = "FileNotFoundError"
            <=> \A c \in Supplied : install.disk[c] = "missing")

\* C15 amended: __init__ ends with FileNotFoundError exactly when the one
\* directory it chose does not exist (other candidates are not tried), and
\* with SteamExecutableNotFound exactly when that directory exists without
\* steam.exe; after either there is no instance and no cache was loaded.
NotFoundIffChosenMissing ==
    Chose =>
        /\ install.error = "FileNotFoundError" <=> install.disk[install.path] = "missing"
        /\ install.error = "SteamExecutableNotFound" <=> install.disk[install.path] = "noexe"
        /\ install.error # "none" => ~alive /\ icon_cache = EmptyCache

\* C15 witness: the registry named a directory that is gone while the
\* default directory holds a Steam, and __init__ raised FileNotFoundError
\* with a loadable cache file on disk.
StaleRegistryPathRaised ==
    /\ Chose /\ install.path = "hklm" /\ install.disk["hklm"] = "missing"
    /\ install.disk["default"] = "steam"
    /\ install.error = "FileNotFoundError" /\ ~alive
    /\ LoadIconCache(cache_file) # EmptyCache

\* a step that ends the session (finalized or not)
SessionEnds == alive /\ ~alive'
\* a step that constructs an instance
SessionBegins == ~alive /\ alive'

\* C11 as claimed: whatever map M the previous session held when its save
\* ran (a save of an empty M included), a fresh session that reads the file
\* starts with exactly M.
RoundTripAnyMap ==
    [][ (SessionBegins /\ save_log \in {"saved", "skipped"} /\ load_log' # "error")
            => icon_cache' = icon_cache ]_vars

\* C11 amended: a non-empty map whose save completed is what a fresh session
\* that reads the file starts with; an empty map is never written, so the
\* fresh session starts with what the file held before.
RoundTripNonEmptyMap ==
    [][ (SessionBegins /\ load_log' # "error") =>
            /\ save_log = "saved" =>
                  icon_cache # EmptyCache /\ icon_cache' = icon_cache /\ load_log' = "loaded"
            /\ save_log = "skipped" =>
                  icon_cache = EmptyCache /\ icon_cache' = LoadIconCache(cache_file)
      ]_vars

\* C11 witness: a map holding a path was saved and a fresh session loaded
\* exactly it.
SavedMapLoadedBack ==
    /\ alive /\ Quiet /\ session > 1
    /\ save_log = "saved" /\ load_log = "loaded"
    /\ resolvedHere = {}
    /\ \E i \in Ids : IsPath(icon_cache[i])
    /\ icon_cache = cache_file.cache

\* C12: whatever the file (absent, another version, not a dict, unreadable)
\* and whatever goes wrong reading it, construction ends with an instance;
\* its map is the file's whole mapping when the file was read as a dict of
\* the running version and empty in every other case.
LoadAllOrNothing ==
    [][ (session' # session /\ install'.error = "none") =>
            /\ alive'
            /\ icon_cache' = IF load_log' = "loaded" THEN cache_file.cache ELSE EmptyCache
            /\ load_log' = "loaded" =>
                  cache_file.kind = "dict" /\ cache_file.version = CACHE_VERSION
            /\ cache_file' = cache_file
      ]_vars

\* C12 witness: the file holds a mapping written under another version and
\* the instance started with an empty map.
OldVersionFileDiscarded ==
    /\ alive /\ load_log = "rejected"
    /\ cache_file.kind = "dict" /\ cache_file.version # CACHE_VERSION
    /\ cache_file.cache # EmptyCache
    /\ icon_cache = EmptyCache

\* C13 as claimed: every end of a session attempts a save of the map.
SaveAlwaysAttempted ==
    [][ SessionEnds => save_log' \in {"saved", "failed"} ]_vars

\* C13 amended: when the instance is finalized with a non-empty map a save
\* is attempted, and it either writes the whole map or fails without any
\* effect but on the file; with an empty map nothing is attempted and the
\* file is untouched; when the process ends without finalizing the instance
\* nothing is saved. In every case the session ends and the map is as it was.
SaveAttemptedWhenFinalizedNonEmpty ==
    [][ SessionEnds =>
            /\ icon_cache' = icon_cache
            /\ save_log' \in {"saved", "failed", "skipped", "none"}
            /\ save_log' \in {"saved", "failed"} => icon_cache # EmptyCache
            /\ save_log' = "skipped" => icon_cache = EmptyCache
            /\ save_log' = "saved" => cache_file' = DictFile(CACHE_VERSION, icon_cache)
            /\ save_log' = "failed" => cache_file' \in {cache_file, CorruptFile}
            /\ save_log' \in {"skipped", "none"} => cache_file' = cache_file
      ]_vars

\* C13 witness: a session ended with a save that failed; the failure left
\* a broken file and nothing else.
FailedSaveSwallowed ==
    /\ ~alive /\ save_log = "failed"
    /\ icon_cache # EmptyCache
    /\ cache_file = CorruptFile

\* C18 as claimed: a path a call returns was seen to exist during that call,
\* by the memory check or by the tier that produced it.
ReturnedPathSeenOnDisk ==
    \A f \in Frames :
        (pc[f] = "done" /\ IsPath(ret[f])) =>
            \E k \in 1..Len(trace[f]) : trace[f][k].res = ret[f] /\ trace[f][k].ok

\* C19: the step in which a call ends with the download's exception changes
\* neither the in-memory map nor the lru_cache nor the cache file; a batch
\* whose work item raised reports None for the identifier while the map
\* holds no None for it and the lru_cache nothing; and a later call for an
\* identifier the batch reported None for and the map has no entry for is
\* not answered from the lru_cache or the map: it runs the tiers from the
\* registry on.
FailureLeavesCachesUnchanged ==
    [][ /\ \A f \in Frames :
              (pc[f] # "done" /\ pc'[f] = "done" /\ ret'[f] = Raised) =>
                  /\ icon_cache' = icon_cache
                  /\ memo' = memo
                  /\ cache_file' = cache_file
        /\ bpc = "done" =>
              \A k \in 1..Len(futures) :
                  ret[Task(k)] = Raised =>
                      /\ icon_map[futures[k]] = None
                      /\ icon_cache[futures[k]] # None
                      /\ memo[futures[k]] = Absent
        /\ \A f \in Callers :
              (pc[f] = "done" /\ icon_map[arg[f]] = None /\ pre[f].entry = Absent) =>
                  /\ pre[f].memo = Absent
                  /\ Len(trace[f]) >= 2 /\ trace[f][2].tier = "registry"
      ]_vars

\* C19 witness: the batch reported None for an identifier whose download
\* raised, and the next direct call for it ran the tiers and found a path.
FailedIdResolvedAgain ==
    \E f \in Callers :
        /\ bpc = "idle" /\ pc[f] = "done"
        /\ icon_map[arg[f]] = None /\ pre[f].entry = Absent /\ pre[f].memo = Absent
        /\ Len(trace[f]) >= 2 /\ trace[f][2].tier = "registry"
        /\ IsPath(ret[f])

\* the URLs a run has requested, in the order of the requests
Requested(r) == [k \in 1..Len(rlog[r]) |-> rlog[r][k][1]]
\* the positions in the run's log at which a URL answered 200
Answered200(r) == {k \in 1..Len(rlog[r]) : rlog[r][k][2] = "200"}

\* C17 as claimed: a run requests the URLs in the order of the list; one
\* that has ended requested nothing after the first URL that answered 200
\* and returned that URL's file, or requested every URL, none of which
\* answered 200, and returned None.
FirstOkUrlWins ==
    \A r \in Runs :
        /\ \A k \in 1..Len(rlog[r]) : Requested(r)[k] = k
        /\ rpc[r] = "done" =>
              IF Answered200(r) # {}
              THEN /\ Answered200(r) = {Len(rlog[r])}
                   /\ rret[r] = CdnPath(DlId, Len(rlog[r]))
              ELSE Len(rlog[r]) = NumUrls /\ rret[r] = None

\* C20 as claimed: in the step in which a run returns a path, the file of
\* that path holds the whole body.
ReturnedFileIsComplete ==
    [][ \A r \in Runs :
            (rpc[r] # "done" /\ rpc'[r] = "done" /\ IsPath(rret'[r]))
                => Complete(icon_file'[ru[r]]) ]_vars

\* C16 as claimed: once every process has ended and some save completed,
\* the file is the complete pickle of the map of the process whose save
\* completed last; and whatever a process loaded is the empty map or a map
\* whose save had completed.
LastWriterWins ==
    /\ ((\A p \in Procs : ppc[p] = "ended") /\ porder # <<>>) =>
            WellFormed(shared_file, pmap[porder[Len(porder)]])
    /\ \A p \in Procs : ploaded[p] \in psaved \cup {EmptyCache}

====
